---- MODULE Spec2Model ----
(***************************************************************************)
(* AquaHealthOS demo backend: reading ingestion, alert de-spam, alert      *)
(* resolution and the in-process per-pond simulator, as a state machine.   *)
(*                                                                         *)
(* Measurements are fixed-point integers: dissolved oxygen and ammonia in  *)
(* hundredths of mg/L, pH in tenths, temperature in whole degrees C.       *)
(* Scores (health_score, do_risk, nh3_risk) and nh3_proxy are kept in      *)
(* units of 1/Scale, which makes every formula of risk_engine.py exact.    *)
(* Time is in minutes.                                                     *)
(***************************************************************************)
EXTENDS Integers, Sequences, FiniteSets, TLC

\* ---------------------------------------------------------------- bounds
\* ponds already in the database (ids 1..NumPonds); id NumPonds+1 is absent
NumPonds == 2
\* concurrent HTTP request handlers (FastAPI's thread pool)
NumClients == 2
\* simulator threads ever started
MaxThreads == 2
\* rows of sensor_readings / alerts the model lets the tables grow to
MaxReadings == 3
MaxAlerts == 2
\* the clock advances TickMinutes at a time, up to MaxTime
TickMinutes == 6
MaxTime == 12
\* readings a simulator loop writes after a stop that the model still counts
MaxWritten == 2

\* ------------------------------------------------------ program constants
\* timedelta(minutes=10): the de-spam window
DespamWindow == 10
\* fixed-point unit of the scores: 1.0 == Scale
Scale == 500000

\* --------------------------------------------------------- risk_engine.py
max(a, b) == IF b > a THEN b ELSE a

min(a, b) == IF b < a THEN b ELSE a

\* _clamp without its upper bound
ClampLowerOnly(x, lo, hi) == max(lo, x)

_clamp(x, lo, hi) == max(lo, min(hi, x))

MsgDoHigh == "Critical: Dissolved Oxygen dangerously low"
MsgDoMedium == "Warning: Dissolved Oxygen low"
MsgNh3High == "Critical: Ammonia stress risk high"
MsgNh3Medium == "Warning: Ammonia stress risk rising"

\* (5.0 - do) / 1.5 * 60.0, clamped, when do < 5.0
DoRisk(do) ==
    IF do < 500 THEN _clamp((500 - do) * ((2 * Scale) \div 5), 0, 100 * Scale) ELSE 0

\* ammonia * (1 + (ph - 7.0) * 0.35) * (1 + (temp - 28.0) * 0.04), then max(0.0, .)
\*   = (a/100) * ((7 ph10 - 290)/200) * ((temp - 3)/25), in units of 1/500000
Nh3Proxy(temp, ammonia, ph) == max(0, ammonia * (7 * ph - 290) * (temp - 3))

Nh3Risk(proxy) == _clamp(proxy * 40, 0, 100 * Scale)

\* risk_total = 0.6 * do_risk + 0.4 * nh3_risk; health_score = clamp(100 - risk_total)
HealthScore(do_risk, nh3_risk) ==
    _clamp(100 * Scale - ((3 * do_risk) \div 5 + (2 * nh3_risk) \div 5), 0, 100 * Scale)

\* the DO branches with inclusive thresholds
DoMessagesInclusive(do) ==
    IF do <= 350 THEN << <<"HIGH", MsgDoHigh>> >>
    ELSE IF do <= 450 THEN << <<"MEDIUM", MsgDoMedium>> >>
    ELSE << >>

DoMessages(do) ==
    IF do < 350 THEN << <<"HIGH", MsgDoHigh>> >>
    ELSE IF do < 450 THEN << <<"MEDIUM", MsgDoMedium>> >>
    ELSE << >>

Nh3Messages(proxy) ==
    IF 5 * proxy > 4 * Scale THEN << <<"HIGH", MsgNh3High>> >>
    ELSE IF 5 * proxy > 2 * Scale THEN << <<"MEDIUM", MsgNh3Medium>> >>
    ELSE << >>

calculate_risk(do, temp, ammonia, ph) ==
    LET do_risk == DoRisk(do)
        nh3_proxy == Nh3Proxy(temp, ammonia, ph)
        nh3_risk == Nh3Risk(nh3_proxy)
    IN  [health_score |-> HealthScore(do_risk, nh3_risk),
         do_risk |-> do_risk,
         nh3_risk |-> nh3_risk,
         messages |-> DoMessages(do) \o Nh3Messages(nh3_proxy)]

status_from_health(score) ==
    IF score >= 75 * Scale THEN "GOOD"
    ELSE IF score >= 50 * Scale THEN "WATCH"
    ELSE "CRITICAL"

\* ReadingCreate's field constraints (ge / le)
Valid(s) ==
    /\ s.do >= 0
    /\ s.temp >= -5 /\ s.temp <= 60
    /\ s.ammonia >= 0
    /\ s.ph >= 0 /\ s.ph <= 140

Risk(s) == calculate_risk(s.do, s.temp, s.ammonia, s.ph)

\* ------------------------------------------------------------- the inputs
Sample(do, temp, ammonia, ph) == [do |-> do, temp |-> temp, ammonia |-> ammonia, ph |-> ph]

\* request bodies of POST /ingest/reading: one with no message, one with the HIGH
\* DO message, one with the HIGH DO and the HIGH ammonia message, one that fails
\* validation
Healthy == Sample(680, 29, 15, 76)
LowDo == Sample(300, 29, 10, 70)
LowDoHighNh3 == Sample(300, 30, 100, 80)
Invalid == Sample(0 - 100, 29, 10, 70)

Samples == {Healthy, LowDo, LowDoHighNh3, Invalid}

\* the request bodies of the concurrent callers
RaceSamples == {LowDo, LowDoHighNh3}

\* readings _sim_loop can draw: do in [0.5, 12], ammonia in [0, 2], temp about 29,
\* ph about 7.6 (random.uniform, and the drift of incident_mode)
SimLowDo == Sample(300, 29, 15, 76)

SimSamples == {Healthy, SimLowDo}

\* readings whose DO falls from one to the next, and the horizons and step sizes
\* build_forecast is called with (hours >= 0, step_minutes >= 1)
Declining == Sample(620, 29, 15, 76)

ForecastSamples == {Healthy, Declining, LowDo}

ForecastHours == {0, 1, 2}

ForecastStepMinutes == {45, 60}

\* inputs of the Risk Evaluator taken on their own, out-of-range ones included
RiskGrid ==
    { Sample(d, t, a, p) : d \in {0 - 100, 0, 349, 350, 449, 450, 499, 500, 1200},
                          t \in {0 - 5, 3, 28, 60},
                          a \in {0 - 10, 0, 10, 100, 300},
                          p \in {0, 41, 42, 70, 140} }

PondIds == 1 .. (NumPonds + 1)
Clients == 1 .. NumClients
AlertIds == 1 .. (MaxAlerts + 1)

\* ------------------------------------------------------------------ state
VARIABLES
    ponds,        \* ids of the rows of table ponds
    readings,     \* table sensor_readings; a row's id is its index
    alerts,       \* table alerts; a row's id is its index
    now,          \* datetime.utcnow(), in minutes
    sim_running,  \* _sim_running: pond id -> bool (absent key = False)
    loops,        \* the _sim_loop threads started so far, oldest first
    req,          \* per request handler: the call in progress and its locals
    resp,         \* the call completed last and its response
    probe         \* an input of the Risk Evaluator and, once evaluated, its result

vars == <<ponds, readings, alerts, now, sim_running, loops, req, resp, probe>>

\* resolved_at of an unresolved alert (NULL)
Null == 0 - 1

NoSample == Sample(0, 0, 0, 0)

\* a handler's locals.  alerts0 is the number of rows of table alerts when the call
\* began, kept for the record of the call; seen is the number of rows the de-spam
\* query in progress looked at.
IdleReq ==
    [pc |-> "idle", op |-> "none", pond |-> 0, msgs |-> << >>,
     window |-> 0, reading_id |-> 0, alert_id |-> 0, flag |-> FALSE, alerts0 |-> 0,
     seen |-> 0]

\* a completed call: the endpoint, the HTTP status, the response body, alerts0
NoResp == [op |-> "none", status |-> 0, body |-> [detail |-> "none"], alerts0 |-> 0]

Failed(op, status, detail) ==
    [op |-> op, status |-> status, body |-> [detail |-> detail], alerts0 |-> Len(alerts)]

NoProbe == [in |-> NoSample, done |-> FALSE, out |-> Risk(NoSample)]

\* startup(): the tables exist and table ponds holds its rows
Init ==
    /\ ponds = 1 .. NumPonds
    /\ readings = << >>
    /\ alerts = << >>
    /\ now = 0
    /\ sim_running = [p \in PondIds |-> FALSE]
    /\ loops = << >>
    /\ req = [c \in Clients |-> IdleReq]
    /\ resp = NoResp
    /\ probe = NoProbe

\* ------------------------------------------------- persistence primitives
\* _ensure_pond that never raises
EnsurePondSkipped(pond_id) == TRUE

\* _ensure_pond: the pond row exists (otherwise HTTPException 404)
_ensure_pond(pond_id) == pond_id \in ponds

\* SensorReading(...); db.add; db.commit; db.refresh
NewReading(pond_id, s, t) ==
    LET risk == Risk(s)
    IN  [id |-> Len(readings) + 1, pond_id |-> pond_id, dissolved_oxygen |-> s.do, temperature |-> s.temp,
         ammonia |-> s.ammonia, ph |-> s.ph, health_score |-> risk.health_score,
         do_risk |-> risk.do_risk, nh3_risk |-> risk.nh3_risk, created_at |-> t]

\* recent_window with timedelta(seconds=10): no minute of lookback
RecentWindowSeconds(t) == t

\* recent_window = datetime.utcnow() - timedelta(minutes=10)
RecentWindow(t) == t - DespamWindow

\* the de-spam query with the resolved filter inverted
AlertExistsResolved(pond_id, msg, recent_window) ==
    \E i \in 1 .. Len(alerts) :
        /\ alerts[i].pond_id = pond_id
        /\ alerts[i].message = msg
        /\ alerts[i].resolved = TRUE
        /\ alerts[i].created_at >= recent_window

\* the de-spam query without the filter on resolved
AlertExistsAnyState(pond_id, msg, recent_window) ==
    \E i \in 1 .. Len(alerts) :
        /\ alerts[i].pond_id = pond_id
        /\ alerts[i].message = msg
        /\ alerts[i].created_at >= recent_window

\* the de-spam query: same pond, same message, unresolved, created_at >= recent_window
AlertExists(pond_id, msg, recent_window) ==
    \E i \in 1 .. Len(alerts) :
        /\ alerts[i].pond_id = pond_id
        /\ alerts[i].message = msg
        /\ alerts[i].resolved = FALSE
        /\ alerts[i].created_at >= recent_window

\* Alert(pond_id=..., message=msg, severity=severity); defaults of models.Alert.
\* seen is no column: it records how many rows the de-spam query that let this
\* row in had looked at.
NewAlert(pond_id, severity, msg, t, seen) ==
    [id |-> Len(alerts) + 1, pond_id |-> pond_id, message |-> msg, severity |-> severity,
     resolved |-> FALSE, created_at |-> t, resolved_at |-> Null, seen |-> seen]

\* the handler returns: its locals are gone and r is the response
Done(c, r) ==
    /\ req' = [req EXCEPT ![c] = IdleReq]
    /\ resp' = r

Reply(c, status, body) ==
    [op |-> req[c].op, status |-> status, body |-> body, alerts0 |-> req[c].alerts0]

\* ------------------------------------------ POST /api/v1/ingest/reading
\* validation, _ensure_pond, calculate_risk, the reading's commit, recent_window
IngestBegin(c, p, s) ==
    /\ req[c].pc = "idle"
    /\ IF ~Valid(s)
       THEN /\ resp' = Failed("ingest", 422, "validation")
            /\ UNCHANGED <<readings, req>>
       ELSE IF ~_ensure_pond(p)
       THEN /\ resp' = Failed("ingest", 404, "Pond not found")
            /\ UNCHANGED <<readings, req>>
       ELSE /\ Len(readings) < MaxReadings
            /\ readings' = Append(readings, NewReading(p, s, now))
            /\ req' = [req EXCEPT ![c] =
                   [IdleReq EXCEPT !.pc = "check", !.op = "ingest", !.pond = p,
                                   !.msgs = Risk(s).messages,
                                   !.window = RecentWindow(now),
                                   !.reading_id = Len(readings) + 1,
                                   !.alerts0 = Len(alerts)]]
            /\ UNCHANGED resp
    /\ UNCHANGED <<ponds, alerts, now, sim_running, loops, probe>>

\* the response of ingest_reading
IngestBody(reading_id) ==
    [ok |-> TRUE, reading_id |-> reading_id,
     health_score |-> readings[reading_id].health_score]

\* one turn of "for severity, msg in risk.messages": the query, or the return
IngestCheck(c) ==
    /\ req[c].pc = "check"
    /\ IF req[c].msgs = << >>
       THEN Done(c, Reply(c, 200, IngestBody(req[c].reading_id)))
       ELSE /\ req' = [req EXCEPT ![c] =
                   IF AlertExists(req[c].pond, Head(req[c].msgs)[2], req[c].window)
                   THEN [req[c] EXCEPT !.msgs = Tail(req[c].msgs)]
                   ELSE [req[c] EXCEPT !.pc = "insert", !.seen = Len(alerts)]]
            /\ UNCHANGED resp
    /\ UNCHANGED <<ponds, readings, alerts, now, sim_running, loops, probe>>

\* "if not exists": db.add(Alert(...)); db.commit()
IngestInsert(c) ==
    /\ req[c].pc = "insert"
    /\ Len(alerts) < MaxAlerts
    /\ alerts' = Append(alerts, NewAlert(req[c].pond, Head(req[c].msgs)[1],
                                         Head(req[c].msgs)[2], now, req[c].seen))
    /\ req' = [req EXCEPT ![c] =
           [req[c] EXCEPT !.pc = "check", !.msgs = Tail(req[c].msgs), !.seen = 0]]
    /\ UNCHANGED <<ponds, readings, now, sim_running, loops, resp, probe>>

\* ------------------------------------------ POST /api/v1/alerts/{id}/resolve
\* resolve_alert without "if not alert.resolved": every found row is written
ResolveLoadUnguarded(c, a) ==
    /\ req[c].pc = "idle"
    /\ IF a > Len(alerts)
       THEN /\ resp' = Failed("resolve", 404, "Alert not found")
            /\ UNCHANGED req
       ELSE /\ req' = [req EXCEPT ![c] =
                   [IdleReq EXCEPT !.pc = "resolve", !.op = "resolve",
                                   !.alert_id = a, !.alerts0 = Len(alerts)]]
            /\ UNCHANGED resp
    /\ UNCHANGED <<ponds, readings, alerts, now, sim_running, loops, probe>>

\* the query; 404 when absent; the return when the row read is already resolved
ResolveLoad(c, a) ==
    /\ req[c].pc = "idle"
    /\ IF a > Len(alerts)
       THEN /\ resp' = Failed("resolve", 404, "Alert not found")
            /\ UNCHANGED req
       ELSE IF alerts[a].resolved
       THEN /\ resp' = [op |-> "resolve", status |-> 200, body |-> alerts[a],
                         alerts0 |-> Len(alerts)]
            /\ UNCHANGED req
       ELSE /\ req' = [req EXCEPT ![c] =
                   [IdleReq EXCEPT !.pc = "resolve", !.op = "resolve",
                                   !.alert_id = a, !.alerts0 = Len(alerts)]]
            /\ UNCHANGED resp
    /\ UNCHANGED <<ponds, readings, alerts, now, sim_running, loops, probe>>

\* alert.resolved = True; alert.resolved_at = utcnow(); commit; refresh; return
ResolveWrite(c) ==
    /\ req[c].pc = "resolve"
    /\ alerts' = [alerts EXCEPT ![req[c].alert_id] =
                     [@ EXCEPT !.resolved = TRUE, !.resolved_at = now]]
    /\ Done(c, Reply(c, 200, alerts'[req[c].alert_id]))
    /\ UNCHANGED <<ponds, readings, now, sim_running, loops, probe>>

\* ------------------------------------------------------------- the clock
Tick ==
    /\ now + TickMinutes <= MaxTime
    /\ now' = now + TickMinutes
    /\ UNCHANGED <<ponds, readings, alerts, sim_running, loops, req, resp, probe>>

\* ------------------------------------------------ the simulator (main.py)
\* a thread running _sim_loop(pond_id, ...), about to poll the flag.  stopped and
\* written record, for the thread, that a stop was accepted while it was alive and
\* how many readings it has persisted since (counted up to MaxWritten).
NewLoop(p) ==
    [pond |-> p, pc |-> "poll", msgs |-> << >>, window |-> 0, seen |-> 0,
     stopped |-> FALSE, written |-> 0]

Alive(t) == loops[t].pc \notin {"exited", "dead"}

\* the threads of a pond that have not left _sim_loop
LoopsAlive(p) == { t \in 1 .. Len(loops) : loops[t].pond = p /\ Alive(t) }

\* _sim_running.get(pond_id, False)
Running(p) == sim_running[p]

\* _start_sim, under _sim_lock: False when the flag is set, else set it and
\* start a thread
_start_sim(c, p) ==
    IF Running(p)
    THEN /\ UNCHANGED <<sim_running, loops>>
         /\ req' = [req EXCEPT ![c] = [IdleReq EXCEPT !.pc = "sim_status",
                        !.op = "sim_start", !.pond = p, !.flag = FALSE, !.alerts0 = Len(alerts)]]
    ELSE /\ Len(loops) < MaxThreads
         /\ sim_running' = [sim_running EXCEPT ![p] = TRUE]
         /\ loops' = Append(loops, NewLoop(p))
         /\ req' = [req EXCEPT ![c] = [IdleReq EXCEPT !.pc = "sim_status",
                        !.op = "sim_start", !.pond = p, !.flag = TRUE, !.alerts0 = Len(alerts)]]

\* stop_simulation of simulator.py: the flag cleared and True, whatever it was
stop_simulation(c, p) ==
    /\ sim_running' = [sim_running EXCEPT ![p] = FALSE]
    /\ UNCHANGED loops
    /\ req' = [req EXCEPT ![c] = [IdleReq EXCEPT !.pc = "sim_status",
                   !.op = "sim_stop", !.pond = p, !.flag = TRUE, !.alerts0 = Len(alerts)]]

\* _stop_sim, under _sim_lock: False when the flag is clear, else clear it
_stop_sim(c, p) ==
    IF ~Running(p)
    THEN /\ UNCHANGED <<sim_running, loops>>
         /\ req' = [req EXCEPT ![c] = [IdleReq EXCEPT !.pc = "sim_status",
                        !.op = "sim_stop", !.pond = p, !.flag = FALSE, !.alerts0 = Len(alerts)]]
    ELSE /\ sim_running' = [sim_running EXCEPT ![p] = FALSE]
         /\ loops' = [t \in 1 .. Len(loops) |->
                         IF loops[t].pond = p /\ Alive(t)
                         THEN [loops[t] EXCEPT !.stopped = TRUE, !.written = 0]
                         ELSE loops[t]]
         /\ req' = [req EXCEPT ![c] = [IdleReq EXCEPT !.pc = "sim_status",
                        !.op = "sim_stop", !.pond = p, !.flag = TRUE, !.alerts0 = Len(alerts)]]

\* POST /api/v1/sim/start/{pond_id}: _ensure_pond, then _start_sim
SimStart(c, p) ==
    /\ req[c].pc = "idle"
    /\ IF ~_ensure_pond(p)
       THEN /\ resp' = Failed("sim_start", 404, "Pond not found")
            /\ UNCHANGED <<sim_running, loops, req>>
       ELSE /\ _start_sim(c, p)
            /\ UNCHANGED resp
    /\ UNCHANGED <<ponds, readings, alerts, now, probe>>

\* POST /api/v1/sim/stop/{pond_id}: _stop_sim
SimStop(c, p) ==
    /\ req[c].pc = "idle"
    /\ _stop_sim(c, p)
    /\ UNCHANGED <<ponds, readings, alerts, now, resp, probe>>

\* the second half of sim_start / sim_stop: _sim_status under the lock, the return
SimReturn(c) ==
    /\ req[c].pc = "sim_status"
    /\ Done(c, Reply(c, 200,
             IF req[c].op = "sim_start"
             THEN [pond_id |-> req[c].pond, running |-> Running(req[c].pond),
                   started |-> req[c].flag]
             ELSE [pond_id |-> req[c].pond, running |-> Running(req[c].pond),
                   stopped |-> req[c].flag]))
    /\ UNCHANGED <<ponds, readings, alerts, now, sim_running, loops, probe>>

\* GET /api/v1/sim/status/{pond_id}
SimStatus(c, p) ==
    /\ req[c].pc = "idle"
    /\ resp' = [op |-> "sim_status", status |-> 200,
                body |-> [pond_id |-> p, running |-> Running(p)], alerts0 |-> Len(alerts)]
    /\ UNCHANGED <<ponds, readings, alerts, now, sim_running, loops, req, probe>>

\* _sim_loop: "with _sim_lock: if not _sim_running.get(pond_id, False): break"
LoopPoll(t) ==
    /\ loops[t].pc = "poll"
    /\ loops' = [loops EXCEPT ![t] =
                    [@ EXCEPT !.pc = IF Running(loops[t].pond) THEN "write" ELSE "exited"]]
    /\ UNCHANGED <<ponds, readings, alerts, now, sim_running, req, resp, probe>>

\* _sim_loop: the reading is drawn; _ensure_pond; _create_reading_and_alerts up to
\* recent_window.  A pond that is gone raises out of the thread.
LoopWrite(t, s) ==
    /\ loops[t].pc = "write"
    /\ IF ~_ensure_pond(loops[t].pond)
       THEN /\ loops' = [loops EXCEPT ![t] = [@ EXCEPT !.pc = "dead"]]
            /\ UNCHANGED readings
       ELSE /\ Len(readings) < MaxReadings
            /\ loops[t].stopped => loops[t].written < MaxWritten
            /\ readings' = Append(readings, NewReading(loops[t].pond, s, now))
            /\ loops' = [loops EXCEPT ![t] =
                   [@ EXCEPT !.pc = "check", !.msgs = Risk(s).messages,
                             !.window = RecentWindow(now),
                             !.written = IF loops[t].stopped THEN @ + 1 ELSE 0]]
    /\ UNCHANGED <<ponds, alerts, now, sim_running, req, resp, probe>>

\* _create_reading_and_alerts: one turn of the loop over risk.messages (the query),
\* or its end, where the thread goes to sleep
LoopCheck(t) ==
    /\ loops[t].pc = "check"
    /\ loops' = [loops EXCEPT ![t] =
           IF loops[t].msgs = << >>
           THEN [@ EXCEPT !.pc = "sleep", !.window = 0]
           ELSE IF AlertExists(loops[t].pond, Head(loops[t].msgs)[2], loops[t].window)
           THEN [@ EXCEPT !.msgs = Tail(loops[t].msgs)]
           ELSE [@ EXCEPT !.pc = "insert", !.seen = Len(alerts)]]
    /\ UNCHANGED <<ponds, readings, alerts, now, sim_running, req, resp, probe>>

LoopInsert(t) ==
    /\ loops[t].pc = "insert"
    /\ Len(alerts) < MaxAlerts
    /\ alerts' = Append(alerts, NewAlert(loops[t].pond, Head(loops[t].msgs)[1],
                                         Head(loops[t].msgs)[2], now, loops[t].seen))
    /\ loops' = [loops EXCEPT ![t] =
           [@ EXCEPT !.pc = "check", !.msgs = Tail(loops[t].msgs), !.seen = 0]]
    /\ UNCHANGED <<ponds, readings, now, sim_running, req, resp, probe>>

\* time.sleep(max(1, int(interval_sec))) returns
LoopSleep(t) ==
    /\ loops[t].pc = "sleep"
    /\ loops' = [loops EXCEPT ![t] = [@ EXCEPT !.pc = "poll"]]
    /\ UNCHANGED <<ponds, readings, alerts, now, sim_running, req, resp, probe>>

\* _sim_loop: a statement of the iteration on the session raises (db.commit,
\* db.query).  "finally: db.close()" runs and the exception leaves _sim_loop, which
\* has no handler: the thread ends and _sim_running is left as it is.
LoopRaise(t) ==
    /\ loops[t].pc \in {"write", "check", "insert"}
    /\ loops' = [loops EXCEPT ![t] =
           [@ EXCEPT !.pc = "dead", !.msgs = << >>, !.window = 0, !.seen = 0]]
    /\ UNCHANGED <<ponds, readings, alerts, now, sim_running, req, resp, probe>>

\* ------------------------------------------------------------ forecast.py
\* build_forecast's defaults
lookback_hours == 6
max_points == 360

RECURSIVE SumSeq(_)
SumSeq(s) == IF s = << >> THEN 0 ELSE Head(s) + SumSeq(Tail(s))

\* _linreg_slope, as the fraction num / den.  x - x_mean is (n*x - sum(xs)) / n, so
\* both sums are carried times n*n, which cancels in the quotient.
_linreg_slope(xs, ys) ==
    LET n   == Len(xs)
        sx  == SumSeq(xs)
        sy  == SumSeq(ys)
        num == SumSeq([i \in 1 .. n |-> (n * xs[i] - sx) * (n * ys[i] - sy)])
        den == SumSeq([i \in 1 .. n |-> (n * xs[i] - sx) * (n * xs[i] - sx)])
    IN  IF n < 2 THEN [num |-> 0, den |-> 1]
        ELSE IF den = 0 THEN [num |-> 0, den |-> 1]
        ELSE [num |-> num, den |-> den]

\* the query: the pond's readings with created_at >= since, newest first, at most
\* max_points of them, then reversed to oldest first.  Rows are stored in the order
\* of their created_at.
ForecastRows(pond_id, since) ==
    LET InWindow(r) == r.pond_id = pond_id /\ r.created_at >= since
        all == SelectSeq(readings, InWindow)
    IN  SubSeq(all, max(1, Len(all) - max_points + 1), Len(all))

\* base + (slope * damp) * minutes_ahead with damp = damp10 / 10; the value is kept
\* in the unit of the measurement, the quotient cut to that unit
Project(base, slope, damp10, minutes_ahead) ==
    base + (damp10 * slope.num * minutes_ahead) \div (10 * slope.den)

\* steps = int((hours * 60) / step_minutes), for hours >= 0 and step_minutes >= 1
Steps(hours, step_minutes) == (hours * 60) \div step_minutes

\* range(1, steps) in place of range(1, steps + 1)
StepRangeExclusive(steps) == 1 .. (steps - 1)

\* range(1, steps + 1)
StepRange(steps) == 1 .. steps

\* round(x, ndigits) of a value that is a whole number of units/unit: the nearest
\* multiple of unit, a tie going to the even one
Round(x, unit) ==
    LET q == x \div unit
        r == x % unit
    IN  unit * (IF 2 * r < unit THEN q
                ELSE IF 2 * r > unit THEN q + 1
                ELSE IF q % 2 = 0 THEN q ELSE q + 1)

\* one iteration of the loop over the steps: the projected, clamped point
ForecastPoint(rows, i, step_minutes) ==
    LET n    == Len(rows)
        t0   == rows[1].created_at
        xs   == [k \in 1 .. n |-> rows[k].created_at - t0]
        last == rows[n]
        minutes_ahead == i * step_minutes
        slope(ys) == _linreg_slope(xs, ys)
        pred_do   == _clamp(Project(last.dissolved_oxygen,
                        slope([k \in 1 .. n |-> rows[k].dissolved_oxygen]), 7, minutes_ahead),
                        20, 1200)
        pred_nh3  == _clamp(Project(last.ammonia,
                        slope([k \in 1 .. n |-> rows[k].ammonia]), 7, minutes_ahead),
                        0, 300)
        pred_temp == _clamp(Project(last.temperature,
                        slope([k \in 1 .. n |-> rows[k].temperature]), 3, minutes_ahead),
                        10, 40)
        pred_ph   == _clamp(Project(last.ph,
                        slope([k \in 1 .. n |-> rows[k].ph]), 2, minutes_ahead),
                        60, 95)
        risk == calculate_risk(pred_do, pred_temp, pred_nh3, pred_ph)
    IN  [t |-> now + minutes_ahead,
         dissolved_oxygen |-> pred_do, ammonia |-> pred_nh3,
         temperature |-> pred_temp, ph |-> pred_ph,
         health_score |-> Round(risk.health_score, Scale \div 100),
         do_risk |-> Round(risk.do_risk, Scale \div 100),
         nh3_risk |-> Round(risk.nh3_risk, Scale \div 100),
         status |-> status_from_health(risk.health_score)]

\* the number of minutes the points of a status stand for: step_minutes / 60 hours
\* are added per point, kept here in minutes
Bucket(points, statuses, step_minutes) ==
    step_minutes * Cardinality({i \in DOMAIN points : points[i].status \in statuses})

\* round(hours_at_status, 1), in tenths of an hour
RoundHours(minutes) == Round(minutes, 6) \div 6

\* the damped slope per hour, in the unit of the measurement
SlopePerHour(slope, damp10) == (damp10 * slope.num * 60) \div (10 * slope.den)

\* build_forecast(db, pond_id, hours, step_minutes).  unrounded is no part of the
\* response: it keeps critical_hours, watch_hours and good_hours as they stand
\* before line 154 rounds them, in minutes.
build_forecast(c, pond_id, hours, step_minutes) ==
    /\ req[c].pc = "idle"
    /\ LET since == now - lookback_hours * 60
           rows  == ForecastRows(pond_id, since)
       IN  IF rows = << >>
           THEN resp' = [op |-> "forecast", status |-> 200,
                         body |-> [pond_id |-> pond_id, generated_at |-> now,
                                   hours |-> hours, step_minutes |-> step_minutes,
                                   points |-> << >>,
                                   summary |-> [message |-> "No readings available yet",
                                                critical_hours |-> 0, watch_hours |-> 0,
                                                good_hours |-> 0],
                                   unrounded |-> [critical |-> 0, watch |-> 0, good |-> 0]],
                         alerts0 |-> Len(alerts)]
           ELSE LET n      == Len(rows)
                    xs     == [k \in 1 .. n |-> rows[k].created_at - rows[1].created_at]
                    steps  == Steps(hours, step_minutes)
                    points == [i \in StepRange(steps) |-> ForecastPoint(rows, i, step_minutes)]
                    critical == Bucket(points, {"CRITICAL"}, step_minutes)
                    watch    == Bucket(points, {"WATCH"}, step_minutes)
                    good     == Bucket(points, {"GOOD"}, step_minutes)
                IN  resp' = [op |-> "forecast", status |-> 200,
                             body |-> [pond_id |-> pond_id, generated_at |-> now,
                                       hours |-> hours, step_minutes |-> step_minutes,
                                       points |-> points,
                                       summary |->
                                         [critical_hours |-> RoundHours(critical),
                                          watch_hours |-> RoundHours(watch),
                                          good_hours |-> RoundHours(good),
                                          do_slope_per_hour |-> SlopePerHour(_linreg_slope(xs,
                                              [k \in 1 .. n |-> rows[k].dissolved_oxygen]), 7),
                                          nh3_slope_per_hour |-> SlopePerHour(_linreg_slope(xs,
                                              [k \in 1 .. n |-> rows[k].ammonia]), 7),
                                          temp_slope_per_hour |-> SlopePerHour(_linreg_slope(xs,
                                              [k \in 1 .. n |-> rows[k].temperature]), 3),
                                          ph_slope_per_hour |-> SlopePerHour(_linreg_slope(xs,
                                              [k \in 1 .. n |-> rows[k].ph]), 2)],
                                       unrounded |-> [critical |-> critical, watch |-> watch,
                                                      good |-> good]],
                             alerts0 |-> Len(alerts)]
    /\ UNCHANGED <<ponds, readings, alerts, now, sim_running, loops, req, probe>>

\* no call for as long as the lookback window and a tick more
Idle ==
    /\ now <= MaxTime
    /\ now' = now + lookback_hours * 60 + TickMinutes
    /\ UNCHANGED <<ponds, readings, alerts, sim_running, loops, req, resp, probe>>

\* ------------------------------------------------------ the specifications
Threads == 1 .. Len(loops)

ClientStep(c, P, S) ==
    \/ \E p \in P, s \in S : IngestBegin(c, p, s)
    \/ IngestCheck(c)
    \/ IngestInsert(c)
    \/ \E a \in AlertIds : ResolveLoad(c, a)
    \/ ResolveWrite(c)

SimControl(c, P) ==
    \/ \E p \in P : SimStart(c, p)
    \/ \E p \in P : SimStop(c, p)
    \/ \E p \in P : SimStatus(c, p)
    \/ SimReturn(c)

LoopStep(t, S) ==
    \/ LoopPoll(t)
    \/ \E s \in S : LoopWrite(t, s)
    \/ LoopCheck(t)
    \/ LoopInsert(t)
    \/ LoopSleep(t)

\* the HTTP handlers of readings and alerts, run concurrently by the thread pool
Next ==
    \/ \E c \in Clients : ClientStep(c, {1, NumPonds + 1}, RaceSamples)
    \/ Tick

Spec == Init /\ [][Next]_vars

\* one caller, each call answered before the next is made
NextSeq ==
    \/ ClientStep(1, PondIds, Samples)
    \/ Tick

SpecSeq == Init /\ [][NextSeq]_vars

\* the simulator: its control endpoints and its threads
NextSim ==
    \/ SimControl(1, {1, NumPonds + 1})
    \/ \E t \in Threads : LoopStep(t, SimSamples)

SpecSim == Init /\ [][NextSim]_vars

\* the simulator with a database whose statements can fail
NextSimFail ==
    \/ NextSim
    \/ \E t \in Threads : LoopRaise(t)

SpecSimFail == Init /\ [][NextSimFail]_vars

\* one caller of the HTTP handlers beside the simulator of pond 1, once started
NextMix ==
    \/ ClientStep(1, {1, NumPonds + 1}, {LowDo})
    \/ \E p \in {1, NumPonds + 1} : SimStart(1, p)
    \/ SimReturn(1)
    \/ \E t \in Threads : LoopStep(t, {SimLowDo})
    \/ Tick

SpecMix == Init /\ [][NextMix]_vars

\* the Risk Evaluator on an input of its own, and the same input ingested
Evaluate ==
    /\ ~probe.done
    /\ probe' = [probe EXCEPT !.done = TRUE, !.out = Risk(probe.in)]
    /\ UNCHANGED <<ponds, readings, alerts, now, sim_running, loops, req, resp>>

InitRisk ==
    /\ ponds = 1 .. NumPonds
    /\ readings = << >>
    /\ alerts = << >>
    /\ now = 0
    /\ sim_running = [p \in PondIds |-> FALSE]
    /\ loops = << >>
    /\ req = [c \in Clients |-> IdleReq]
    /\ resp = NoResp
    /\ probe \in { [NoProbe EXCEPT !.in = s] : s \in RiskGrid }

NextRisk ==
    \/ Evaluate
    \/ IngestBegin(1, 1, probe.in)
    \/ IngestCheck(1)
    \/ IngestInsert(1)

SpecRisk == InitRisk /\ [][NextRisk]_vars

\* one caller ingesting readings of pond 1 and asking for forecasts
NextForecast ==
    \/ \E s \in ForecastSamples : IngestBegin(1, 1, s)
    \/ IngestCheck(1)
    \/ IngestInsert(1)
    \/ \E p \in 1 .. NumPonds, h \in ForecastHours, m \in ForecastStepMinutes :
          build_forecast(1, p, h, m)
    \/ Tick
    \/ Idle

SpecForecast == Init /\ [][NextForecast]_vars

\* ================================================================ claims

\* C1: for every pond, at most one simulator loop is alive at any time, whatever
\* the sequence of sim start / sim stop calls and loop steps.
C1_AtMostOneLoopPerPond ==
    \A p \in PondIds : Cardinality(LoopsAlive(p)) <= 1

\* C6: a start for a pond whose simulation is running reports started=false and
\* changes neither the flag nor the threads; a start for one that is not running
\* reports started=true, sets the flag and starts one thread; a stop for a pond
\* that is not running reports stopped=false and changes nothing; a stop for a
\* running one reports stopped=true and clears the flag.
C6_StartStopReports ==
    [][\A c \in Clients :
        /\ (req[c].pc = "idle" /\ req'[c].pc = "sim_status" /\ req'[c].op = "sim_start") =>
              IF sim_running[req'[c].pond]
              THEN req'[c].flag = FALSE /\ sim_running' = sim_running /\ loops' = loops
              ELSE /\ req'[c].flag = TRUE
                   /\ sim_running' = [sim_running EXCEPT ![req'[c].pond] = TRUE]
                   /\ Len(loops') = Len(loops) + 1
                   /\ loops'[Len(loops')].pond = req'[c].pond
                   /\ loops'[Len(loops')].pc = "poll"
        /\ (req[c].pc = "idle" /\ req'[c].pc = "sim_status" /\ req'[c].op = "sim_stop") =>
              IF ~sim_running[req'[c].pond]
              THEN req'[c].flag = FALSE /\ sim_running' = sim_running /\ loops' = loops
              ELSE /\ req'[c].flag = TRUE
                   /\ sim_running' = [sim_running EXCEPT ![req'[c].pond] = FALSE]
                   /\ Len(loops') = Len(loops)
        /\ (req[c].pc = "sim_status" /\ req'[c].pc = "idle" /\ req[c].op = "sim_start") =>
              resp'.status = 200 /\ resp'.body.started = req[c].flag
        /\ (req[c].pc = "sim_status" /\ req'[c].pc = "idle" /\ req[c].op = "sim_stop") =>
              resp'.status = 200 /\ resp'.body.stopped = req[c].flag
    ]_vars

\* a start that was refused and, after it, a stop that was refused
C6_Witness ==
    /\ resp.op = "sim_stop" /\ resp.status = 200 /\ resp.body.stopped = FALSE
    /\ Len(loops) = MaxThreads
    /\ \E t \in Threads : loops[t].pc = "exited"

\* C7: once a stop is accepted for a pond, the loop that was running persists at
\* most one more reading (the write of its current cycle) before it exits.
C7_AtMostOneReadingAfterStop ==
    \A t \in Threads : loops[t].stopped => loops[t].written <= 1

\* two unresolved alerts of one pond with one message text, the older first
Duplicates(i, j) ==
    /\ i < j
    /\ alerts[i].pond_id = alerts[j].pond_id
    /\ alerts[i].message = alerts[j].message
    /\ alerts[i].resolved = FALSE
    /\ alerts[j].resolved = FALSE

\* C2 as stated: under any interleaving of ingestions there are never two
\* unresolved alerts with the same pond and message whose creation times lie
\* within one 10-minute de-spam window.
C2_NoDuplicateInWindow ==
    \A i, j \in 1 .. Len(alerts) :
        Duplicates(i, j) => alerts[j].created_at - alerts[i].created_at > DespamWindow

\* C2 as amended: two unresolved alerts with the same pond and message lie within
\* one de-spam window only if the ingestion that created the later one ran its
\* existence query before the earlier one was committed.
C2_NoDuplicateUnlessRaced ==
    \A i, j \in 1 .. Len(alerts) :
        Duplicates(i, j) =>
            \/ alerts[j].created_at - alerts[i].created_at > DespamWindow
            \/ alerts[j].seen < i

\* the de-spam query at work: a later alert whose query did look at the earlier
\* row, and let the alert in because that row was more than a window old
C2_Witness ==
    \E i, j \in 1 .. Len(alerts) :
        /\ Duplicates(i, j)
        /\ alerts[j].seen >= i
        /\ alerts[j].created_at - alerts[i].created_at > DespamWindow

\* the message texts the Risk Evaluator emits for a stored reading
RowMessages(r) ==
    LET msgs == calculate_risk(r.dissolved_oxygen, r.temperature, r.ammonia, r.ph).messages
    IN  { msgs[k][2] : k \in 1 .. Len(msgs) }

\* ids of the unresolved alerts of a pond with a message text, in table as
UnresolvedIds(as, pond_id, msg) ==
    { i \in 1 .. Len(as) :
        as[i].pond_id = pond_id /\ as[i].message = msg /\ as[i].resolved = FALSE }

SameMeasurements(r1, r2) ==
    /\ r1.pond_id = r2.pond_id
    /\ r1.dissolved_oxygen = r2.dissolved_oxygen
    /\ r1.temperature = r2.temperature
    /\ r1.ammonia = r2.ammonia
    /\ r1.ph = r2.ph

\* the step on which the caller's ingest returns, the call answered before it
\* being an ingest of the same alert-triggering reading for the same pond less
\* than 10 minutes earlier
SecondIngestReturns ==
    /\ req[1].pc = "check" /\ req[1].msgs = << >> /\ req'[1].pc = "idle"
    /\ resp.op = "ingest" /\ resp.status = 200
    /\ resp.body.reading_id < req[1].reading_id
    /\ SameMeasurements(readings[resp.body.reading_id], readings[req[1].reading_id])
    /\ readings[req[1].reading_id].created_at
           - readings[resp.body.reading_id].created_at < DespamWindow
    /\ RowMessages(readings[req[1].reading_id]) # {}

\* C3 as stated: after the same alert-triggering reading is ingested twice in a
\* row for a pond, less than 10 minutes apart and with no resolve in between,
\* exactly one unresolved alert with each of its messages exists for the pond, and
\* the second ingest has persisted a reading but no alert.
C3_ExactlyOneAfterTwoIngests ==
    [][SecondIngestReturns =>
          /\ \A m \in RowMessages(readings[req[1].reading_id]) :
                Cardinality(UnresolvedIds(alerts', readings[req[1].reading_id].pond_id, m)) = 1
          /\ Len(alerts') = req[1].alerts0
    ]_vars

\* C3 as amended: the same, for each message of the reading for which the pond had
\* no unresolved alert before the first of the two ingests: exactly one unresolved
\* alert with that message exists afterwards, and the second ingest did not
\* persist it (it persisted a reading only).
C3_ExactlyOneWhenNoneBefore ==
    [][SecondIngestReturns =>
          \A m \in RowMessages(readings[req[1].reading_id]) :
              LET pond == readings[req[1].reading_id].pond_id
                  ids == UnresolvedIds(alerts', pond, m)
              IN  (\A i \in ids : i > resp.alerts0) =>
                      /\ Cardinality(ids) = 1
                      /\ \A i \in ids : i <= req[1].alerts0
                      /\ readings'[req[1].reading_id].id = Len(readings')
    ]_vars

\* two ingests of the reading with two messages 6 minutes apart: the first made
\* both alerts, the second began and ended with those two
C3_Witness ==
    /\ req[1].pc = "idle"
    /\ resp.op = "ingest" /\ resp.status = 200 /\ resp.body.reading_id = 2
    /\ resp.alerts0 = 2 /\ Len(alerts) = 2
    /\ SameMeasurements(readings[1], readings[2])
    /\ readings[2].created_at - readings[1].created_at = TickMinutes
    /\ TickMinutes < DespamWindow
    /\ \A i \in 1 .. 2 : alerts[i].resolved = FALSE
                          /\ alerts[i].created_at = readings[1].created_at
                          /\ alerts[i].pond_id = readings[1].pond_id

\* C4: resolving an alert that is already resolved changes no alert and no
\* reading, returns the stored alert (resolved, resolved_at as first set), and
\* returns what the resolve answered just before it returned for that alert.
C4_ResolveResolvedIsNoOp ==
    [][(/\ req[1].pc \in {"idle", "resolve"} /\ req'[1].pc = "idle" /\ now' = now
        /\ resp'.op = "resolve" /\ resp'.status = 200
        /\ alerts[resp'.body.id].resolved) =>
          /\ alerts' = alerts
          /\ readings' = readings
          /\ resp'.body = alerts[resp'.body.id]
          /\ resp'.body.resolved = TRUE
          /\ resp'.body.resolved_at # Null
          /\ (resp.op = "resolve" /\ resp.status = 200 /\ resp.body.id = resp'.body.id) =>
                 resp'.body = resp.body
    ]_vars

\* alert 1 was resolved, then alert 2 later, and the last call resolved alert 1
\* once more
C4_Witness ==
    /\ req[1].pc = "idle"
    /\ resp.op = "resolve" /\ resp.status = 200 /\ resp.body.id = 1
    /\ Len(alerts) = 2
    /\ alerts[1].resolved /\ alerts[2].resolved
    /\ alerts[2].resolved_at > alerts[1].resolved_at
    /\ resp.body.resolved_at = alerts[1].resolved_at

\* C9: a successful ingest returns the id of the reading it persisted, that
\* reading's health score, and the Status Classifier's status of that score.
C9_IngestReturnsStatus ==
    (resp.op = "ingest" /\ resp.status = 200) =>
        /\ resp.body.reading_id \in 1 .. Len(readings)
        /\ resp.body.health_score = readings[resp.body.reading_id].health_score
        /\ "status" \in DOMAIN resp.body
        /\ resp.body.status = status_from_health(resp.body.health_score)

\* C5: for every alert resolved_at is set exactly when resolved is true, and once
\* an alert is resolved neither its flag nor its resolved_at is written again.
C5_ResolvedWrittenOnce ==
    [][\A i \in 1 .. Len(alerts') :
          /\ (alerts'[i].resolved_at # Null) <=> alerts'[i].resolved
          /\ (i <= Len(alerts) /\ alerts[i].resolved) =>
                 /\ alerts'[i].resolved
                 /\ alerts'[i].resolved_at = alerts[i].resolved_at
    ]_vars

\* C8: no step leaves a reading, an alert, an ingest in progress or a simulator
\* thread that references a pond which does not exist, and the step on which an
\* ingest is answered 404 changes neither the readings nor the alerts.
C8_PondReferencesExist ==
    [][/\ \A i \in 1 .. Len(readings') : readings'[i].pond_id \in ponds'
       /\ \A i \in 1 .. Len(alerts') : alerts'[i].pond_id \in ponds'
       /\ \A c \in Clients : req'[c].op = "ingest" => req'[c].pond \in ponds'
       /\ \A t \in 1 .. Len(loops') : loops'[t].pond \in ponds'
       /\ (resp' # resp /\ resp'.op = "ingest" /\ resp'.status = 404) =>
              readings' = readings /\ alerts' = alerts
    ]_vars

\* an ingest was answered 404 while readings and alerts of pond 1 are stored
C8_Witness ==
    /\ resp.op = "ingest" /\ resp.status = 404
    /\ Len(readings) >= 2 /\ Len(alerts) >= 1
    /\ \E t \in Threads : loops[t].pc = "sleep"

InRange(x) == 0 <= x /\ x <= 100 * Scale

\* C10: the Risk Evaluator's health_score, do_risk and nh3_risk lie in [0,100]
\* for every input, and so do the scores of every stored reading.
C10_ScoresInRange ==
    /\ probe.done =>
          /\ InRange(probe.out.health_score)
          /\ InRange(probe.out.do_risk)
          /\ InRange(probe.out.nh3_risk)
    /\ \A i \in 1 .. Len(readings) :
          /\ InRange(readings[i].health_score)
          /\ InRange(readings[i].do_risk)
          /\ InRange(readings[i].nh3_risk)

\* an input whose raw risks both exceed 100, evaluated and ingested
C10_Witness ==
    /\ probe.done
    /\ (500 - probe.in.do) * 40 > 100 * 100
    /\ probe.out.do_risk = 100 * Scale
    /\ probe.out.nh3_risk = 100 * Scale
    /\ probe.out.health_score = 0
    /\ Len(readings) >= 1
    /\ readings[1].do_risk = 100 * Scale /\ readings[1].health_score = 0

\* the messages of a result whose text is in T, in the order they were appended
MessagesIn(out, T) ==
    LET InT(m) == m[2] \in T IN SelectSeq(out.messages, InT)

\* C11: the Risk Evaluator emits at most one DO message and at most one ammonia
\* message, the DO message first; do < 3.5 gives exactly the HIGH DO message,
\* 3.5 <= do < 4.5 exactly the MEDIUM DO message, do >= 4.5 none; and do >= 5.0
\* gives do_risk = 0.
C11_MessagesByThreshold ==
    probe.done =>
        LET do == probe.in.do
            d  == MessagesIn(probe.out, {MsgDoHigh, MsgDoMedium})
            n  == MessagesIn(probe.out, {MsgNh3High, MsgNh3Medium})
        IN  /\ Len(d) <= 1 /\ Len(n) <= 1
            /\ probe.out.messages = d \o n
            /\ do < 350 => d = << <<"HIGH", MsgDoHigh>> >>
            /\ (do >= 350 /\ do < 450) => d = << <<"MEDIUM", MsgDoMedium>> >>
            /\ do >= 450 => d = << >>
            /\ do >= 500 => probe.out.do_risk = 0

\* do exactly 3.5 with a high ammonia proxy: the MEDIUM DO message, then the
\* HIGH ammonia message
C11_Witness ==
    /\ probe.done
    /\ probe.in.do = 350
    /\ probe.out.messages = << <<"MEDIUM", MsgDoMedium>>, <<"HIGH", MsgNh3High>> >>
    /\ probe.out.do_risk > 0

\* C12: with at least one reading of the pond in the lookback window build_forecast
\* returns floor(hours*60/step_minutes) points in increasing time order, each
\* point's status is the Status Classifier applied to the Risk Evaluator's score
\* for the point, each point is counted in exactly one of the three buckets, so
\* the unrounded buckets sum to steps*step_minutes (minutes); with no reading it
\* returns no point and three zero buckets, and no error.
C12_ForecastPoints ==
    [][(resp' # resp /\ resp'.op = "forecast") =>
        LET b == resp'.body
            pts == b.points
            inWindow == {i \in 1 .. Len(readings) :
                            /\ readings[i].pond_id = b.pond_id
                            /\ readings[i].created_at >= now - lookback_hours * 60}
            steps == (b.hours * 60) \div b.step_minutes
            Counted(st) == b.step_minutes * Cardinality({i \in DOMAIN pts : pts[i].status = st})
        IN  /\ resp'.status = 200
            /\ IF inWindow = {}
               THEN /\ pts = << >>
                    /\ b.summary.critical_hours = 0
                    /\ b.summary.watch_hours = 0
                    /\ b.summary.good_hours = 0
                    /\ b.unrounded = [critical |-> 0, watch |-> 0, good |-> 0]
               ELSE /\ DOMAIN pts = 1 .. steps
                    /\ \A i, j \in DOMAIN pts : i < j => pts[i].t < pts[j].t
                    /\ \A i \in DOMAIN pts :
                          /\ pts[i].status \in {"CRITICAL", "WATCH", "GOOD"}
                          /\ pts[i].status = status_from_health(
                                calculate_risk(pts[i].dissolved_oxygen, pts[i].temperature,
                                               pts[i].ammonia, pts[i].ph).health_score)
                    /\ b.unrounded.critical = Counted("CRITICAL")
                    /\ b.unrounded.watch = Counted("WATCH")
                    /\ b.unrounded.good = Counted("GOOD")
                    /\ b.unrounded.critical + b.unrounded.watch + b.unrounded.good
                          = steps * b.step_minutes
    ]_vars

\* a forecast of 2 hours in steps of 45 minutes from a falling DO: two points, the
\* first WATCH and the second CRITICAL
C12_Witness ==
    /\ resp.op = "forecast"
    /\ resp.body.hours = 2 /\ resp.body.step_minutes = 45
    /\ Len(resp.body.points) = 2
    /\ resp.body.points[1].status = "WATCH"
    /\ resp.body.points[2].status = "CRITICAL"
    /\ resp.body.unrounded = [critical |-> 45, watch |-> 45, good |-> 0]

\* C13: the simulator status of a pond reports running = true (the flag, which
\* also decides whether a start is accepted) only if a loop is alive for the
\* pond, also after an iteration of the loop has raised.
C13_RunningOnlyIfAlive ==
    \A p \in PondIds : Running(p) => LoopsAlive(p) # {}

\* the step on which the caller's ingest returns
IngestReturns ==
    req[1].pc = "check" /\ req[1].msgs = << >> /\ req'[1].pc = "idle"

\* C14: only unresolved alerts of the last 10 minutes suppress.  When an ingest
\* emits a message and, as the call began, every alert of the pond with that
\* message was resolved or older than 10 minutes, the call persists a new
\* unresolved alert with the message.
C14_OnlyRecentUnresolvedSuppress ==
    [][IngestReturns =>
          LET r == readings[req[1].reading_id]
              before == req[1].alerts0
          IN  \A m \in RowMessages(r) :
                  (\A i \in 1 .. before :
                      (alerts[i].pond_id = r.pond_id /\ alerts[i].message = m) =>
                          \/ alerts[i].resolved
                          \/ alerts[i].created_at < r.created_at - DespamWindow)
                  => \E j \in (before + 1) .. Len(alerts') :
                          /\ alerts'[j].pond_id = r.pond_id
                          /\ alerts'[j].message = m
                          /\ alerts'[j].resolved = FALSE
                          /\ alerts'[j].created_at >= r.created_at
    ]_vars

\* an alert was resolved and, less than 10 minutes after it was created, an ingest
\* of the same pond emitting the same message has persisted a second, unresolved one
C14_Witness ==
    /\ req[1].pc = "idle"
    /\ resp.op = "ingest" /\ resp.status = 200
    /\ Len(alerts) = 2
    /\ alerts[1].resolved /\ ~alerts[2].resolved
    /\ alerts[1].pond_id = alerts[2].pond_id
    /\ alerts[1].message = alerts[2].message
    /\ alerts[1].resolved_at <= alerts[2].created_at
    /\ alerts[2].created_at - alerts[1].created_at < DespamWindow
    /\ alerts[2].created_at > alerts[1].created_at

====
